---- MODULE Spec2Model ----
(***************************************************************************)
(* Model of src/app.py: a Telegram bot that stores subscribers in a        *)
(* Supabase table, sends one asteroid message on /start, registers a daily *)
(* job per /start and cancels the jobs of a chat on /stop.                 *)
(*                                                                         *)
(* Scheduling.  main() builds the Application with the default builder     *)
(* (line 202), so updates are handled one at a time: a second command      *)
(* handler starts only when the previous one has returned or raised.  Job  *)
(* callbacks run as tasks of their own on the same event loop, so a fire   *)
(* of a daily job interleaves with a handler at every await.  The calls    *)
(* made through requests, deep_translator and supabase are synchronous:    *)
(* the only suspension points are the awaits on the bot (send_photo,       *)
(* send_message, reply_text).                                              *)
(***************************************************************************)
EXTENDS Integers, Sequences, FiniteSets, Bags, TLC

\* ------------------------------------------------------------------ bounds
\* The most daily jobs one chat is given (/start is refused beyond it).
MaxJobs == 2
\* The most runs of send_periodic_message in progress at once.
MaxInflight == 1

\* The chats that send commands.  A handler reads and writes the rows and
\* jobs of its own chat only, so two chats show every interference there is.
Chats == {1, 2}

\* ------------------------------------------------------- Python values
\* A Python value that is a str or None.
Str(s) == [type |-> "str", val |-> s]
None == [type |-> "NoneType", val |-> ""]
\* Python truthiness of a str-or-None value (`if imagem:`).
Truthy(v) == v.type = "str" /\ v.val # ""

\* ------------------------------------------------------ string literals
ErrFeedText == Str("Erro ao buscar dados da NASA.")
NoAsteroidText == Str("Nenhum asteroide proximo hoje")
ErrProcessText == Str("Erro ao processar dados do asteroide.")
MsgOriginal == Str("Asteroide proximo da Terra! Nome / Distancia aproximada / Velocidade")
MsgTraduzido == Str("Asteroide proximo da Terra! (pt)")
ImageUrl == Str("https://images-assets.nasa.gov/image/x/x~thumb.jpg")

ReplyNoJobQueue == "Erro: JobQueue nao configurado. Contate o administrador."
ReplyStarted == "Bot iniciado! Voce recebera atualizacoes sobre asteroides diariamente as 10h."
ReplyStopped == "Envios diarios desativados. Use /start para reativar."
ReplyNoneActive == "Nenhum envio diario ativo para este chat."

\* ------------------------------------------------- outcomes of the outside
\* What a call on the Supabase client does: it returns or it raises.
StoreOutcomes == {"ok", "raise"}
\* What the NEO feed request does: requests.get raises, the status is not
\* 200, the payload lacks the keys the code reads, the day has no asteroid,
\* the day has asteroids.
FeedOutcomes == {"raise", "status", "malformed", "empty", "asteroid"}
\* What GoogleTranslator.translate does: it raises, or it returns a value,
\* which the code passes on unexamined: a translation, an empty string, None.
TranslateOutcomes == {"raise", "text", "empty", "none"}
\* What the image search does: requests.get raises, the status is not 200,
\* no items, an item without links, an item with a link.
ImageOutcomes == {"raise", "status", "noitems", "malformed", "link"}
\* What an awaited call on the bot does: it returns or it raises.
BotOutcomes == {"ok", "raise"}

VARIABLES
    jobQueue,   \* context.job_queue is not None (fixed by the installation)
    store,      \* chat ids with a row in table "subscribers"
    jobs,       \* jobs[c]: daily jobs named str(c) in the job queue
    cmd,        \* the command handler in progress, or Idle
    fires,      \* bag of the runs of send_periodic_message in progress
    last,       \* last[c]: how the last handlers for chat c ended
    fetch       \* one run of the content fetcher on its own (SpecContent)

vars == <<jobQueue, store, jobs, cmd, fires, last, fetch>>

\* ------------------------------------------------------ Subscriber store
\* add_subscriber: the insert, a failure logged and swallowed.
add_subscriber(rows, chat_id, outcome) ==
    IF outcome = "ok" THEN rows \cup {chat_id} ELSE rows

\* remove_subscriber: delete every row of chat_id, a failure logged and
\* swallowed.
remove_subscriber(rows, chat_id, outcome) ==
    IF outcome = "ok" THEN rows \ {chat_id} ELSE rows

\* get_subscribers: the chat ids of all rows, [] on failure.
get_subscribers(rows, outcome) ==
    IF outcome = "ok" THEN rows ELSE {}

\* ------------------------------------------------------- Content fetcher
\* traduzir: the translator's value, or texto when the translator raises.
traduzir(texto, outcome) ==
    CASE outcome = "raise" -> texto
      [] outcome = "text" -> MsgTraduzido
      [] outcome = "empty" -> Str("")
      [] outcome = "none" -> None

\* get_asteroid_message: the value returned.
get_asteroid_message(feed, tr) ==
    CASE feed = "status" -> ErrFeedText
      [] feed = "empty" -> NoAsteroidText
      [] feed = "asteroid" -> traduzir(MsgOriginal, tr)
      [] feed \in {"raise", "malformed"} -> ErrProcessText

\* imagem_espacial_aleatoria: a link, or None.
imagem_espacial_aleatoria(img) ==
    IF img = "link" THEN ImageUrl ELSE None

\* What mensagem = get_asteroid_message() and imagem =
\* imagem_espacial_aleatoria() can be in start (lines 163-164) and in
\* send_periodic_message (lines 194-195): every value the fetchers return.
Mensagens ==
    {get_asteroid_message(feed, tr) : feed \in FeedOutcomes, tr \in TranslateOutcomes}
Imagens == {imagem_espacial_aleatoria(img) : img \in ImageOutcomes}

\* ------------------------------------------------------- Delivery sender
\* The state of one call of send_message.
NoCall ==
    [pc |-> "none", chat_id |-> 0, imagem |-> None,
     sent |-> <<>>, result |-> "none", errors |-> 0, raised |-> FALSE]

\* A send_message that never looks at imagem and always sends plain text.
send_message_call_text_only(chat_id, text, imagem, context) ==
    IF ~context
    THEN [pc |-> "returned", chat_id |-> chat_id, imagem |-> imagem,
          sent |-> <<>>, result |-> "none", errors |-> 1, raised |-> FALSE]
    ELSE [pc |-> "await", chat_id |-> chat_id, imagem |-> imagem,
          sent |-> <<"text">>,
          result |-> "none", errors |-> 0, raised |-> FALSE]

\* send_message up to its await: without a context it logs and returns;
\* otherwise it hands one request to the bot, a photo when imagem is truthy
\* and a text message otherwise, and waits for the answer.  text goes into
\* the request as it is and decides nothing, so the record does not keep it.
send_message_call(chat_id, text, imagem, context) ==
    IF ~context
    THEN [pc |-> "returned", chat_id |-> chat_id, imagem |-> imagem,
          sent |-> <<>>, result |-> "none", errors |-> 1, raised |-> FALSE]
    ELSE [pc |-> "await", chat_id |-> chat_id, imagem |-> imagem,
          sent |-> <<IF Truthy(imagem) THEN "photo" ELSE "text">>,
          result |-> "none", errors |-> 0, raised |-> FALSE]

\* A send_message without its try/except: the bot's exception leaves it.
send_message_resume_uncaught(call, outcome) ==
    IF outcome = "ok"
    THEN [call EXCEPT !.pc = "returned", !.result = "ok"]
    ELSE [call EXCEPT !.pc = "returned", !.result = "raise", !.raised = TRUE]

\* send_message from its await on: the bot's exception is logged, not raised.
send_message_resume(call, outcome) ==
    IF outcome = "ok"
    THEN [call EXCEPT !.pc = "returned", !.result = "ok"]
    ELSE [call EXCEPT !.pc = "returned", !.result = "raise", !.errors = @ + 1]

\* ------------------------------------------------------ Handler records
Idle ==
    [op |-> "idle", chat |-> 0, pc |-> "idle", reply |-> "", call |-> NoCall]

\* The handler h when an exception leaves it: its frame is gone.
Raising(h) == [Idle EXCEPT !.op = h.op, !.chat = h.chat, !.pc = "raise"]

\* The content fetcher at rest.
NoFetch ==
    [pc |-> "idle", feed |-> "", tr |-> "", img |-> "",
     mensagem |-> None, imagem |-> None]

\* last[c] after a handler for c has ended.  "never": /start was never sent
\* for c; "start": the last handler for c was /start and returned; "start2":
\* so did the one before it; "stop": the last handler for c was /stop and
\* returned; "raised": the last handler for c raised.
EndOf(op, how, before) ==
    CASE op = "stop" /\ before = "never" -> "never"
      [] how = "raised" -> "raised"
      [] op = "stop" -> "stop"
      [] op = "start" /\ before \in {"start", "start2"} -> "start2"
      [] OTHER -> "start"

Init ==
    /\ jobQueue \in BOOLEAN
    /\ store = {}
    /\ jobs = [c \in Chats |-> 0]
    /\ cmd = Idle
    /\ fires = EmptyBag
    /\ last = [c \in Chats |-> "never"]
    /\ fetch = NoFetch

\* ------------------------------------------------------------- /start
\* A start that fetches and sends before it looks at the job queue.
StartCmd_send_first(c, ins, mensagem, imagem) ==
    /\ cmd = Idle
    /\ jobs[c] < MaxJobs
    /\ store' = add_subscriber(store, c, ins)
    /\ cmd' = [Idle EXCEPT !.op = "start", !.chat = c,
                           !.pc = IF jobQueue THEN "send" ELSE "reply_err",
                           !.reply = IF jobQueue THEN "" ELSE ReplyNoJobQueue,
                           !.call = send_message_call(c, mensagem, imagem, TRUE)]
    /\ UNCHANGED <<jobQueue, jobs, fires, last, fetch>>

\* start, lines 152-165: the insert, the job-queue check, and either the
\* error reply or the fetch and the call of send_message.
StartCmd(c, ins, mensagem, imagem) ==
    /\ cmd = Idle
    /\ jobs[c] < MaxJobs
    /\ store' = add_subscriber(store, c, ins)
    /\ IF ~jobQueue
       THEN cmd' = [Idle EXCEPT !.op = "start", !.chat = c, !.pc = "reply_err",
                                !.reply = ReplyNoJobQueue]
       ELSE cmd' = [Idle EXCEPT !.op = "start", !.chat = c, !.pc = "send",
                                !.call = send_message_call(c, mensagem, imagem, TRUE)]
    /\ UNCHANGED <<jobQueue, jobs, fires, last, fetch>>

\* start, lines 159-160: the error reply returns (the handler returns) or
\* raises (the handler raises).
StartErrReplied(outcome) ==
    /\ cmd.op = "start" /\ cmd.pc = "reply_err"
    /\ IF outcome = "ok"
       THEN /\ cmd' = Idle
            /\ last' = [last EXCEPT ![cmd.chat] = EndOf("start", "returned", @)]
       ELSE /\ cmd' = Raising(cmd)
            /\ UNCHANGED last
    /\ UNCHANGED <<jobQueue, store, jobs, fires, fetch>>

\* start, lines 165-168: send_message returns, the confirmation is sent.
StartSent(outcome) ==
    /\ cmd.op = "start" /\ cmd.pc = "send"
    /\ LET done == send_message_resume(cmd.call, outcome)
       IN IF done.raised
          THEN cmd' = Raising(cmd)
          ELSE cmd' = [cmd EXCEPT !.pc = "reply", !.call = done,
                                  !.reply = ReplyStarted]
    /\ UNCHANGED <<jobQueue, store, jobs, fires, last, fetch>>

\* A start that cancels the chat's jobs before it registers the new one.
StartReplied_replace(outcome) ==
    /\ cmd.op = "start" /\ cmd.pc = "reply"
    /\ IF outcome = "ok"
       THEN /\ jobs' = [jobs EXCEPT ![cmd.chat] = 1]
            /\ cmd' = Idle
            /\ last' = [last EXCEPT ![cmd.chat] = EndOf("start", "returned", @)]
       ELSE /\ cmd' = Raising(cmd)
            /\ UNCHANGED <<jobs, last>>
    /\ UNCHANGED <<jobQueue, store, fires, fetch>>

\* start, lines 168-176: the confirmation returns and run_daily registers
\* one more job named str(chat_id), or the confirmation raises.
StartReplied(outcome) ==
    /\ cmd.op = "start" /\ cmd.pc = "reply"
    /\ IF outcome = "ok"
       THEN /\ jobs' = [jobs EXCEPT ![cmd.chat] = @ + 1]
            /\ cmd' = Idle
            /\ last' = [last EXCEPT ![cmd.chat] = EndOf("start", "returned", @)]
       ELSE /\ cmd' = Raising(cmd)
            /\ UNCHANGED <<jobs, last>>
    /\ UNCHANGED <<jobQueue, store, fires, fetch>>

\* -------------------------------------------------------------- /stop
\* A stop that does not look the chat up before it removes and cancels.
StopCmd_unchecked(c, sel, del) ==
    /\ cmd = Idle
    /\ store' = remove_subscriber(store, c, del)
    /\ IF jobQueue
       THEN /\ jobs' = [jobs EXCEPT ![c] = 0]
            /\ cmd' = [Idle EXCEPT !.op = "stop", !.chat = c, !.pc = "reply",
                                   !.reply = ReplyStopped]
       ELSE /\ jobs' = jobs
            /\ cmd' = [Idle EXCEPT !.op = "stop", !.chat = c, !.pc = "raise"]
    /\ UNCHANGED <<jobQueue, fires, last, fetch>>

\* stop, lines 180-189 up to the await of the reply.
StopCmd(c, sel, del) ==
    /\ cmd = Idle
    /\ IF c \in get_subscribers(store, sel)
       THEN /\ store' = remove_subscriber(store, c, del)
            /\ IF jobQueue
               THEN /\ jobs' = [jobs EXCEPT ![c] = 0]
                    /\ cmd' = [Idle EXCEPT !.op = "stop", !.chat = c, !.pc = "reply",
                                           !.reply = ReplyStopped]
               ELSE \* None.get_jobs_by_name: AttributeError
                    /\ jobs' = jobs
                    /\ cmd' = [Idle EXCEPT !.op = "stop", !.chat = c, !.pc = "raise"]
       ELSE /\ cmd' = [Idle EXCEPT !.op = "stop", !.chat = c, !.pc = "reply",
                                   !.reply = ReplyNoneActive]
            /\ UNCHANGED <<store, jobs>>
    /\ UNCHANGED <<jobQueue, fires, last, fetch>>

\* stop, lines 187 and 189: the reply returns or raises.
StopReplied(outcome) ==
    /\ cmd.op = "stop" /\ cmd.pc = "reply"
    /\ IF outcome = "ok"
       THEN /\ cmd' = Idle
            /\ last' = [last EXCEPT ![cmd.chat] = EndOf("stop", "returned", @)]
       ELSE /\ cmd' = Raising(cmd)
            /\ UNCHANGED last
    /\ UNCHANGED <<jobQueue, store, jobs, fires, fetch>>

\* An exception leaves the handler: the application logs it and goes on to
\* the next update.
HandlerRaised ==
    /\ cmd.pc = "raise"
    /\ cmd' = Idle
    /\ last' = [last EXCEPT ![cmd.chat] = EndOf(cmd.op, "raised", @)]
    /\ UNCHANGED <<jobQueue, store, jobs, fires, fetch>>

\* ---------------------------------------------------- the daily job
\* send_periodic_message up to the await inside send_message: a job named
\* str(c) fires with context.job.data = c, the content is fetched and handed
\* to send_message.
Fire(c, mensagem, imagem) ==
    /\ jobs[c] > 0
    /\ BagCardinality(fires) < MaxInflight
    /\ fires' = fires (+) SetToBag({[chat |-> c,
                                      call |-> send_message_call(c, mensagem, imagem, TRUE)]})
    /\ UNCHANGED <<jobQueue, store, jobs, cmd, last, fetch>>

\* The bot answers the send of run r: send_message goes on to its end.
FireSent(r, outcome) ==
    /\ BagIn(r, fires)
    /\ r.call.pc = "await"
    /\ fires' = (fires (-) SetToBag({r}))
                    (+) SetToBag({[r EXCEPT !.call = send_message_resume(@, outcome)]})
    /\ UNCHANGED <<jobQueue, store, jobs, cmd, last, fetch>>

\* send_periodic_message returns (or raises) to the job queue, which keeps
\* the job either way.
FireReturn(r) ==
    /\ BagIn(r, fires)
    /\ r.call.pc = "returned"
    /\ fires' = fires (-) SetToBag({r})
    /\ UNCHANGED <<jobQueue, store, jobs, cmd, last, fetch>>

Next ==
    \/ \E c \in Chats, ins \in StoreOutcomes, mensagem \in Mensagens, imagem \in Imagens :
          StartCmd(c, ins, mensagem, imagem)
    \/ \E o \in BotOutcomes : StartErrReplied(o)
    \/ \E o \in BotOutcomes : StartSent(o)
    \/ \E o \in BotOutcomes : StartReplied(o)
    \/ \E c \in Chats, sel \in StoreOutcomes, del \in StoreOutcomes : StopCmd(c, sel, del)
    \/ \E o \in BotOutcomes : StopReplied(o)
    \/ HandlerRaised
    \/ \E c \in Chats, mensagem \in Mensagens, imagem \in Imagens :
          Fire(c, mensagem, imagem)
    \/ \E r \in BagToSet(fires), o \in BotOutcomes : FireSent(r, o)
    \/ \E r \in BagToSet(fires) : FireReturn(r)

Spec == Init /\ [][Next]_vars

\* ------------------------------------- the content fetcher on its own
\* The two fetches that start (lines 163-164) and send_periodic_message
\* (lines 194-195) make one after the other, for every outcome of the feed,
\* of the translator and of the image search.
InitContent ==
    /\ jobQueue = TRUE
    /\ store = {}
    /\ jobs = [c \in Chats |-> 0]
    /\ cmd = Idle
    /\ fires = EmptyBag
    /\ last = [c \in Chats |-> "never"]
    /\ \E feed \in FeedOutcomes, tr \in TranslateOutcomes, img \in ImageOutcomes :
          fetch = [NoFetch EXCEPT !.pc = "mensagem", !.feed = feed, !.tr = tr, !.img = img]

\* mensagem = get_asteroid_message()
FetchMensagem ==
    /\ fetch.pc = "mensagem"
    /\ fetch' = [fetch EXCEPT !.pc = "imagem",
                              !.mensagem = get_asteroid_message(fetch.feed, fetch.tr)]
    /\ UNCHANGED <<jobQueue, store, jobs, cmd, fires, last>>

\* imagem = imagem_espacial_aleatoria()
FetchImagem ==
    /\ fetch.pc = "imagem"
    /\ fetch' = [fetch EXCEPT !.pc = "fetched",
                              !.imagem = imagem_espacial_aleatoria(fetch.img)]
    /\ UNCHANGED <<jobQueue, store, jobs, cmd, fires, last>>

NextContent ==
    \/ FetchMensagem
    \/ FetchImagem

SpecContent == InitContent /\ [][NextContent]_vars

\* ================================================================ claims
\* The calls of send_message in progress or just returned.
Calls == ({cmd.call} \ {NoCall}) \cup {r.call : r \in BagToSet(fires)}

\* C1: once /start for c has returned and a following /stop for c has
\* returned, c has no row in the store and no daily job.
C1_StartThenStop ==
    [][(cmd.op = "stop" /\ cmd.pc = "reply" /\ cmd'.op = "idle"
            /\ last[cmd.chat] \in {"start", "start2"})
        => (cmd.chat \notin store' /\ jobs'[cmd.chat] = 0)]_vars

\* C2 as stated: /start without a job queue returns with c in the store, one
\* fetch+deliver cycle made, the job-queue error as its reply and no daily job
\* for c.
C2_AsStated ==
    [][(cmd.op = "start" /\ cmd.pc = "reply_err" /\ cmd'.op = "idle")
        => (/\ cmd.chat \in store'
            /\ Len(cmd.call.sent) = 1
            /\ cmd.reply = ReplyNoJobQueue
            /\ jobs'[cmd.chat] = 0)]_vars

\* C2 as amended: /start without a job queue makes the insert (afterwards the
\* store is the store before plus c, or the store before when the insert
\* failed), makes no fetch+deliver cycle, replies with the job-queue error and
\* registers no daily job.
C2_NoJobQueue ==
    [][/\ (cmd = Idle /\ cmd'.op = "start" /\ ~jobQueue)
            => (/\ store' \in {store \cup {cmd'.chat}, store}
                /\ cmd'.pc = "reply_err"
                /\ cmd'.reply = ReplyNoJobQueue)
       /\ (cmd.op = "start" /\ ~jobQueue)
            => (/\ cmd.call = NoCall
                /\ jobs[cmd.chat] = 0
                /\ jobs' = jobs
                /\ store' = store)]_vars

C2_Witness ==
    /\ ~jobQueue
    /\ cmd.op = "start" /\ cmd.pc = "reply_err"
    /\ cmd.chat \in store
    /\ cmd.reply = ReplyNoJobQueue /\ cmd.call = NoCall

\* C3: /stop for a chat c with a row in the store removes the row, cancels
\* every daily job of c and sends the confirmation, with or without a job
\* queue.
C3_StopOfSubscriber ==
    [][(cmd = Idle /\ cmd'.op = "stop" /\ cmd'.chat \in store)
        => (/\ cmd'.chat \notin store'
            /\ jobs'[cmd'.chat] = 0
            /\ cmd'.pc = "reply"
            /\ cmd'.reply = ReplyStopped)]_vars

\* C4: /stop for a chat for which /start was never sent leaves the store and
\* every chat's daily jobs as they are and replies that no daily schedule is
\* active.
C4_StopNeverSubscribed ==
    [][/\ (cmd = Idle /\ cmd'.op = "stop" /\ last[cmd'.chat] = "never")
            => (/\ store' = store
                /\ jobs' = jobs
                /\ cmd'.pc = "reply"
                /\ cmd'.reply = ReplyNoneActive)
       /\ (cmd.op = "stop" /\ last[cmd.chat] = "never")
            => (store' = store /\ jobs' = jobs)]_vars

C4_Witness ==
    /\ cmd.op = "stop" /\ cmd.pc = "reply"
    /\ last[cmd.chat] = "never"
    /\ cmd.reply = ReplyNoneActive
    /\ \E d \in Chats : d \in store /\ jobs[d] > 0

\* C5: with a job queue, every /start that returns registers one more daily
\* job for its chat and cancels none, so two /start for c with no /stop for c
\* between them leave two daily jobs for c.
C5_StartAddsJob ==
    [][(cmd.op = "start" /\ cmd.pc = "reply" /\ cmd'.op = "idle")
        => jobs' = [jobs EXCEPT ![cmd.chat] = @ + 1]]_vars

C5_Witness ==
    \E c \in Chats : last[c] = "start2" /\ jobs[c] = 2

\* C6: a run of send_periodic_message for chat c hands one request for c to
\* the bot, does not raise whatever the fetches and the bot do, and no step
\* of it changes the daily jobs.
C6_FireKeepsJobs ==
    [][/\ (fires' # fires => jobs' = jobs)
       /\ \A r \in BagToSet(fires') :
            /\ ~r.call.raised
            /\ r.call.chat_id = r.chat
            /\ Len(r.call.sent) = 1]_vars

C6_Witness ==
    \E r \in BagToSet(fires) :
        /\ r.call.pc = "returned" /\ r.call.result = "raise"
        /\ jobs[r.chat] > 0

\* C7: send_message does not raise, makes at most one request to the bot (a
\* photo when imagem is present, a text message otherwise), and has logged
\* one error when the bot raised and none when the bot answered.
C7_SendMessage ==
    \A k \in Calls :
        /\ ~k.raised
        /\ Len(k.sent) <= 1
        /\ (k.sent # <<>> => k.sent[1] = IF Truthy(k.imagem) THEN "photo" ELSE "text")
        /\ (k.pc = "await" => k.errors = 0)
        /\ (k.result = "raise" => k.pc = "returned" /\ k.errors = 1)
        /\ (k.result = "ok" => k.pc = "returned" /\ k.errors = 0)

C7_Witness ==
    \E k \in Calls :
        /\ k.pc = "returned" /\ k.result = "raise" /\ k.errors = 1
        /\ Truthy(k.imagem) /\ k.sent = <<"photo">>

\* C8: get_asteroid_message returns a non-empty string for every outcome of
\* the feed and of the translator.
C8_NonEmptyText ==
    fetch.pc \in {"imagem", "fetched"}
        => (fetch.mensagem.type = "str" /\ fetch.mensagem.val # "")

\* C9: no step of /stop takes away a run of send_periodic_message that is in
\* progress, and once /stop for c has returned no new run for c begins.
C9_StopCancelsFutureFires ==
    [][/\ ((cmd.op = "stop" \/ cmd'.op = "stop") /\ cmd' # cmd => fires' = fires)
       /\ \A r \in BagToSet(fires') :
            (r.call.pc = "await" /\ CopiesIn(r, fires') > CopiesIn(r, fires))
                => last[r.chat] # "stop"]_vars

\* C10: whenever /stop answers that no daily schedule is active, the chat has
\* no daily job.
C10_NoneActiveMeansNoJob ==
    (cmd.op = "stop" /\ cmd.reply = ReplyNoneActive) => jobs[cmd.chat] = 0

====
